---- MODULE Spec2Model ----
(***************************************************************************)
(* A model of src/lib/wasm/src/lib.rs: the per-pixel source-over blend     *)
(* (blend_pixels, computed in IEEE-754 binary32 as the code computes it),  *)
(* the single-overlay compositing loop, composite_multiple_layers and      *)
(* generate_preview.                                                       *)
(***************************************************************************)
EXTENDS Integers, Sequences, FiniteSets

(***************************************************************************)
(* binary32 arithmetic on non-negative values.  A value is [m, e] standing *)
(* for m * 2^e with m = 0 (zero) or 2^23 <= m < 2^24.  Every operation     *)
(* rounds to nearest, ties to even.  No value of blend_pixels is negative, *)
(* subnormal, infinite or NaN (the one division by zero is guarded), so    *)
(* these cases are not represented.  Intermediate integers stay below      *)
(* 2^31.                                                                   *)
(***************************************************************************)
MantBits == 24

Pow2(n) == 2 ^ n

FZero == [m |-> 0, e |-> 0]

IsZero(x) == x.m = 0

RECURSIVE BitLen(_)
BitLen(n) == IF n = 0 THEN 0 ELSE 1 + BitLen(n \div 2)

\* n * 2^e with `sticky` telling that non-zero bits below n were dropped,
\* rounded to MantBits bits (nearest, ties to even).
FRound(n, e, sticky) ==
  IF n = 0 THEN FZero
  ELSE LET len == BitLen(n) IN
       IF len <= MantBits
       THEN [m |-> n * Pow2(MantBits - len), e |-> e - (MantBits - len)]
       ELSE LET s    == len - MantBits
                q    == n \div Pow2(s)
                r    == n % Pow2(s)
                half == Pow2(s - 1)
                up   == \/ r > half
                        \/ r = half /\ (sticky \/ q % 2 = 1)
                q1   == IF up THEN q + 1 ELSE q
            IN IF q1 = Pow2(MantBits)
               THEN [m |-> Pow2(MantBits - 1), e |-> e + s + 1]
               ELSE [m |-> q1, e |-> e + s]

\* u8 as f32: exact.
FromU8(n) == FRound(n, 0, FALSE)

FOne == FromU8(1)

\* x * y
FMul(x, y) ==
  IF IsZero(x) \/ IsZero(y) THEN FZero
  ELSE LET xh == x.m \div 4096
           xl == x.m % 4096
           yh == y.m \div 4096
           yl == y.m % 4096
           cross == xh * yl + xl * yh
           low   == (cross % 4096) * 4096 + xl * yl
           hi    == xh * yh + cross \div 4096 + low \div 16777216
           lo    == low % 16777216
       IN FRound(hi * 64 + lo \div 262144, x.e + y.e + 18, lo % 262144 # 0)

\* x + y
FAdd(x, y) ==
  IF IsZero(x) THEN y
  ELSE IF IsZero(y) THEN x
  ELSE LET big   == IF x.e >= y.e THEN x ELSE y
           small == IF x.e >= y.e THEN y ELSE x
           d     == big.e - small.e
           sm    == IF d <= 5 THEN small.m * Pow2(5 - d)
                    ELSE IF d - 5 >= MantBits THEN 0
                    ELSE small.m \div Pow2(d - 5)
           lost  == IF d <= 5 THEN FALSE
                    ELSE IF d - 5 >= MantBits THEN TRUE
                    ELSE small.m % Pow2(d - 5) # 0
       IN FRound(big.m * 32 + sm, big.e - 5, lost)

\* x - y, for x >= y
FSub(x, y) ==
  IF IsZero(y) THEN x
  ELSE LET d    == x.e - y.e
           sm   == IF d <= 5 THEN y.m * Pow2(5 - d)
                   ELSE IF d - 5 >= MantBits THEN 0
                   ELSE y.m \div Pow2(d - 5)
           lost == IF d <= 5 THEN FALSE
                   ELSE IF d - 5 >= MantBits THEN TRUE
                   ELSE y.m % Pow2(d - 5) # 0
       IN FRound(x.m * 32 - sm - (IF lost THEN 1 ELSE 0), x.e - 5, lost)

\* Long division, seven quotient bits a step: <<quotient, remainder>>.
RECURSIVE DivSteps(_, _, _, _)
DivSteps(q, r, d, k) ==
  IF k = 0 THEN <<q, r>>
  ELSE DivSteps(q * 128 + (r * 128) \div d, (r * 128) % d, d, k - 1)

\* x / y, for y # 0
FDiv(x, y) ==
  IF IsZero(x) THEN FZero
  ELSE LET qr == DivSteps(x.m \div y.m, x.m % y.m, y.m, 4)
       IN FRound(qr[1], x.e - y.e - 28, qr[2] # 0)

\* f32 as u8: truncates toward zero and saturates at 255.
ToU8(x) ==
  IF IsZero(x) THEN 0
  ELSE IF x.e >= 0 THEN 255
  ELSE IF 0 - x.e >= MantBits THEN 0
  ELSE LET v == x.m \div Pow2(0 - x.e) IN IF v > 255 THEN 255 ELSE v

\* Pixels are Rgba<u8>: <<r, g, b, a>> (Rust's index k is k + 1 here).
F255 == FromU8(255)

\* A blend whose base term lacks the factor (1.0 - overlay_alpha).
BlendChannelUnweighted(o, b, overlay_alpha, base_alpha, result_alpha) ==
  ToU8(FDiv(FAdd(FMul(FromU8(o), overlay_alpha),
                 FMul(FromU8(b), base_alpha)),
            result_alpha))

\* One colour channel of blend_pixels (lines 143-145), o and b the overlay's
\* and the base's channel values:
\*   ((o as f32 * overlay_alpha + b as f32 * base_alpha * (1.0 - overlay_alpha))
\*       / result_alpha) as u8
BlendChannel(o, b, overlay_alpha, base_alpha, result_alpha) ==
  ToU8(FDiv(FAdd(FMul(FromU8(o), overlay_alpha),
                 FMul(FMul(FromU8(b), base_alpha), FSub(FOne, overlay_alpha))),
            result_alpha))

blend_pixels(base, overlay) ==
  LET base_alpha    == FDiv(FromU8(base[4]), F255)
      overlay_alpha == FDiv(FromU8(overlay[4]), F255)
      result_alpha  == FAdd(overlay_alpha,
                            FMul(base_alpha, FSub(FOne, overlay_alpha)))
  IN IF IsZero(result_alpha) THEN <<0, 0, 0, 0>>
     ELSE <<BlendChannel(overlay[1], base[1], overlay_alpha, base_alpha, result_alpha),
            BlendChannel(overlay[2], base[2], overlay_alpha, base_alpha, result_alpha),
            BlendChannel(overlay[3], base[3], overlay_alpha, base_alpha, result_alpha),
            ToU8(FMul(result_alpha, F255))>>

(***************************************************************************)
(* Pixel grids: ImageBuffer<Rgba<u8>> with its row-major buffer.           *)
(***************************************************************************)
Grid(w, h, px) == [width |-> w, height |-> h, pixels |-> px]

NoGrid == Grid(0, 0, <<>>)

\* ImageBuffer::get_pixel and put_pixel, x and y counted from 0.
get_pixel(img, x, y) == img.pixels[y * img.width + x + 1]

put_pixel(img, x, y, p) ==
  [img EXCEPT !.pixels = [@ EXCEPT ![y * img.width + x + 1] = p]]

\* A compositing loop that pairs the two buffers index by index, whatever
\* the grids' widths.
RECURSIVE CompositeFlat(_, _, _)
CompositeFlat(result, overlay_grid, k) ==
  IF k >= Len(overlay_grid.pixels) \/ k >= Len(result.pixels) THEN result
  ELSE CompositeFlat(
         [result EXCEPT !.pixels[k + 1] =
                          blend_pixels(@, overlay_grid.pixels[k + 1])],
         overlay_grid, k + 1)

\* The compositing loop (lines 19-25, 69-75, 114-120) from the k-th pixel of
\* overlay.enumerate_pixels() on: row-major, x fastest.
RECURSIVE CompositeFrom(_, _, _)
CompositeFrom(result, overlay_grid, k) ==
  IF k >= overlay_grid.width * overlay_grid.height THEN result
  ELSE LET x == k % overlay_grid.width
           y == k \div overlay_grid.width
           overlay_pixel == overlay_grid.pixels[k + 1]
       IN IF x < result.width /\ y < result.height
          THEN CompositeFrom(
                 put_pixel(result, x, y,
                           blend_pixels(get_pixel(result, x, y), overlay_pixel)),
                 overlay_grid, k + 1)
          ELSE CompositeFrom(result, overlay_grid, k + 1)

CompositeOnto(result, overlay_grid) == CompositeFrom(result, overlay_grid, 0)

(***************************************************************************)
(* Text and bytes.  A string is the sequence of its characters, a byte     *)
(* buffer the sequence of its bytes.                                       *)
(***************************************************************************)
RECURSIVE Flatten(_)
Flatten(ss) == IF ss = <<>> THEN <<>> ELSE Head(ss) \o Flatten(Tail(ss))

\* str::starts_with
starts_with(s, prefix) ==
  Len(s) >= Len(prefix) /\ SubSeq(s, 1, Len(prefix)) = prefix

\* The index of the first "," of s at or after index k, 0 when there is none.
RECURSIVE FindComma(_, _)
FindComma(s, k) ==
  IF k > Len(s) THEN 0 ELSE IF s[k] = "," THEN k ELSE FindComma(s, k + 1)

\* s.split(",").nth(1): the piece between the first "," and the next one
\* (or the end); none when s holds no ",".
split_nth1(s) ==
  LET c1 == FindComma(s, 1)
      c2 == FindComma(s, c1 + 1)
  IN IF c1 = 0 THEN [some |-> FALSE, value |-> <<>>]
     ELSE [some |-> TRUE,
           value |-> SubSeq(s, c1 + 1, IF c2 = 0 THEN Len(s) ELSE c2 - 1)]

\* base64's STANDARD engine: the RFC 4648 alphabet, "=" padding required
\* and canonical, no stray trailing bits.
Base64Alphabet ==
  <<"A", "B", "C", "D", "E", "F", "G", "H", "I", "J", "K", "L", "M",
    "N", "O", "P", "Q", "R", "S", "T", "U", "V", "W", "X", "Y", "Z",
    "a", "b", "c", "d", "e", "f", "g", "h", "i", "j", "k", "l", "m",
    "n", "o", "p", "q", "r", "s", "t", "u", "v", "w", "x", "y", "z",
    "0", "1", "2", "3", "4", "5", "6", "7", "8", "9", "+", "/">>

\* The six-bit value of a character, -1 for one outside the alphabet.
Sextet(c) ==
  IF \E i \in 1..64 : Base64Alphabet[i] = c
  THEN (CHOOSE i \in 1..64 : Base64Alphabet[i] = c) - 1
  ELSE -1

\* STANDARD.encode
RECURSIVE Base64Encode(_)
Base64Encode(bytes) ==
  LET n  == Len(bytes)
      b1 == bytes[1]
      b2 == IF n >= 2 THEN bytes[2] ELSE 0
      b3 == IF n >= 3 THEN bytes[3] ELSE 0
      ch(v) == Base64Alphabet[v + 1]
  IN IF n = 0 THEN <<>>
     ELSE <<ch(b1 \div 4),
            ch((b1 % 4) * 16 + b2 \div 16),
            IF n >= 2 THEN ch((b2 % 16) * 4 + b3 \div 64) ELSE "=",
            IF n >= 3 THEN ch(b3 % 64) ELSE "=">>
          \o (IF n > 3 THEN Base64Encode(SubSeq(bytes, 4, n)) ELSE <<>>)

\* One group of four characters, `last` for the final group (the only one
\* that may be padded): the bytes it holds, or not ok.
Base64Group(g, last) ==
  LET v1 == Sextet(g[1])
      v2 == Sextet(g[2])
      v3 == Sextet(g[3])
      v4 == Sextet(g[4])
      bad == [ok |-> FALSE, bytes |-> <<>>]
  IN IF v1 < 0 \/ v2 < 0 THEN bad
     ELSE IF last /\ g[3] = "=" /\ g[4] = "="
     THEN IF v2 % 16 = 0
          THEN [ok |-> TRUE, bytes |-> <<v1 * 4 + v2 \div 16>>]
          ELSE bad
     ELSE IF v3 < 0 THEN bad
     ELSE IF last /\ g[4] = "="
     THEN IF v3 % 4 = 0
          THEN [ok |-> TRUE,
                bytes |-> <<v1 * 4 + v2 \div 16, (v2 % 16) * 16 + v3 \div 4>>]
          ELSE bad
     ELSE IF v4 < 0 THEN bad
     ELSE [ok |-> TRUE,
           bytes |-> <<v1 * 4 + v2 \div 16, (v2 % 16) * 16 + v3 \div 4,
                       (v3 % 4) * 64 + v4>>]

\* STANDARD.decode
RECURSIVE Base64Decode(_)
Base64Decode(s) ==
  IF s = <<>> THEN [ok |-> TRUE, bytes |-> <<>>]
  ELSE IF Len(s) < 4 THEN [ok |-> FALSE, bytes |-> <<>>]
  ELSE LET g    == Base64Group(SubSeq(s, 1, 4), Len(s) = 4)
           rest == Base64Decode(SubSeq(s, 5, Len(s)))
       IN IF g.ok /\ rest.ok
          THEN [ok |-> TRUE, bytes |-> g.bytes \o rest.bytes]
          ELSE [ok |-> FALSE, bytes |-> <<>>]

(***************************************************************************)
(* The image codec (the image crate: load_from_memory, write_to) is not    *)
(* part of the repository.  It is modelled by a lossless format of its     *)
(* own: the signature byte 137, the width, the height, then four bytes a   *)
(* pixel in row-major order.  Bytes without the signature are of no known  *)
(* format; bytes with it that do not hold a whole non-empty grid are a     *)
(* malformed image.                                                        *)
(***************************************************************************)
Signature == <<137>>

\* ImageBuffer::write_to(.., ImageFormat::Png)
EncodeImage(img) ==
  Signature \o <<img.width, img.height>> \o Flatten(img.pixels)

\* image::load_from_memory(..).to_rgba8(): the grid, or the error's text.
DecodeImage(bytes) ==
  IF Len(bytes) = 0 \/ <<bytes[1]>> # Signature
  THEN [ok |-> FALSE, img |-> NoGrid,
        err |-> "The image format could not be determined"]
  ELSE IF \/ Len(bytes) < 3
          \/ bytes[2] = 0 \/ bytes[3] = 0
          \/ Len(bytes) # 3 + 4 * bytes[2] * bytes[3]
  THEN [ok |-> FALSE, img |-> NoGrid, err |-> "Format error decoding Png"]
  ELSE [ok |-> TRUE,
        img |-> Grid(bytes[2], bytes[3],
                     [k \in 1..(bytes[2] * bytes[3]) |->
                        SubSeq(bytes, 4 * k, 4 * k + 3)]),
        err |-> ""]

\* Ok(format!("data:image/png;base64,{}", base64_data))
DataUrlPrefix ==
  <<"d", "a", "t", "a", ":", "i", "m", "a", "g", "e", "/", "p", "n", "g",
    ";", "b", "a", "s", "e", "6", "4", ",">>

Ok(img) ==
  [kind |-> "Ok", value |-> DataUrlPrefix \o Base64Encode(EncodeImage(img))]

\* Err(JsValue::from_str(&format!("<what>: {}", e))), or with no e
Err(what, e) == [kind |-> "Err", value |-> <<what, e>>]

VARIABLES
  fn,               \* the entry point of this call
  pc,               \* the position in it
  base, overlay,    \* blend_pixels: the two pixels
  blended,          \* blend_pixels(base, overlay), <<>> before the call
  blended_swapped,  \* blend_pixels(overlay, base), <<>> before the call
  base_image_data, overlay_image_data, layers_data, width, height,
  result_img,       \* the working grid (base_img in generate_preview)
  overlay_img,      \* the overlay grid of the current blend pass
  layer_index,      \* how many layers layers_data.iter() has yielded
  base64_content,   \* the payload taken from the last layer yielded
  resized,          \* which of "base", "overlay" imageops::resize was called on
  ret               \* the value returned

vars == <<fn, pc, base, overlay, blended, blended_swapped, base_image_data,
          overlay_image_data, layers_data, width, height, result_img,
          overlay_img, layer_index, base64_content, resized, ret>>

NoRet == [kind |-> "none", value |-> <<>>]

\* What a call that does not use them leaves its variables at.
NoImageCall ==
  /\ base_image_data = <<>> /\ overlay_image_data = <<>> /\ layers_data = <<>>
  /\ width = 0 /\ height = 0
  /\ result_img = NoGrid /\ overlay_img = NoGrid
  /\ layer_index = 0 /\ base64_content = <<>> /\ resized = {}
  /\ ret = NoRet

NoPixelCall ==
  /\ base = <<>> /\ overlay = <<>> /\ blended = <<>> /\ blended_swapped = <<>>

(***************************************************************************)
(* One iteration of composite_multiple_layers' loop (lines 47-75) on the   *)
(* working grid: the new grid, or the error returned.                      *)
(***************************************************************************)
DataImage == <<"d", "a", "t", "a", ":", "i", "m", "a", "g", "e">>

\* Lines 51-56: the base64 text of a layer string, none for a data URL
\* without a ",".
LayerPayload(layer_base64) ==
  IF starts_with(layer_base64, DataImage)
  THEN split_nth1(layer_base64)
  ELSE [some |-> TRUE, value |-> layer_base64]

\* A loop body that passes over a layer whose image bytes do not decode.
ProcessLayerSkipping(result, layer_value) ==
  LET fail(content, e) ==
        [ok |-> FALSE, img |-> result, overlay |-> NoGrid,
         content |-> content, ret |-> e]
  IN IF layer_value.type # "string"
     THEN fail(<<>>, Err("Layer data must be a string", ""))
     ELSE LET payload == LayerPayload(layer_value.chars) IN
       IF ~payload.some
       THEN fail(<<>>, Err("Invalid data URL format", ""))
       ELSE LET overlay_bytes == Base64Decode(payload.value) IN
         IF ~overlay_bytes.ok
         THEN fail(payload.value, Err("Failed to decode base64: ", "DecodeError"))
         ELSE LET decoded == DecodeImage(overlay_bytes.bytes) IN
           IF ~decoded.ok
           THEN [ok |-> TRUE, img |-> result, overlay |-> NoGrid,
                 content |-> payload.value, ret |-> NoRet]
           ELSE [ok |-> TRUE, img |-> CompositeOnto(result, decoded.img),
                 overlay |-> decoded.img, content |-> payload.value,
                 ret |-> NoRet]

\* A layer value is a JS value: [type, chars], chars the text of a string.
ProcessLayer(result, layer_value) ==
  LET fail(content, e) ==
        [ok |-> FALSE, img |-> result, overlay |-> NoGrid,
         content |-> content, ret |-> e]
  IN IF layer_value.type # "string"
     THEN fail(<<>>, Err("Layer data must be a string", ""))
     ELSE LET payload == LayerPayload(layer_value.chars) IN
       IF ~payload.some
       THEN fail(<<>>, Err("Invalid data URL format", ""))
       ELSE LET overlay_bytes == Base64Decode(payload.value) IN
         IF ~overlay_bytes.ok
         THEN fail(payload.value, Err("Failed to decode base64: ", "DecodeError"))
         ELSE LET decoded == DecodeImage(overlay_bytes.bytes) IN
           IF ~decoded.ok
           THEN fail(payload.value,
                     Err("Failed to decode overlay image: ", decoded.err))
           ELSE [ok |-> TRUE, img |-> CompositeOnto(result, decoded.img),
                 overlay |-> decoded.img, content |-> payload.value,
                 ret |-> NoRet]

\* An iterator that yields the layers last to first.
NextLayerReversed(layers, n) == layers[Len(layers) - n]

\* layers_data.iter(): the layer yielded after n others (line 46).
NextLayer(layers, n) == layers[n + 1]

\* The loop from the n-th layer on, then the encoding: the value returned.
RECURSIVE RunLayers(_, _, _)
RunLayers(result, layers, n) ==
  IF n >= Len(layers) THEN Ok(result)
  ELSE LET step == ProcessLayer(result, NextLayer(layers, n))
       IN IF step.ok THEN RunLayers(step.img, layers, n + 1) ELSE step.ret

\* The whole call as a function of its arguments.
composite_multiple_layers(base_bytes, layers) ==
  LET decoded == DecodeImage(base_bytes)
  IN IF ~decoded.ok THEN Err("Failed to decode base image: ", decoded.err)
     ELSE RunLayers(decoded.img, layers, 0)

(***************************************************************************)
(* generate_preview's resampling.                                          *)
(***************************************************************************)
\* A test that resamples only when both dimensions differ.
NeedsResizeBoth(img, w, h) == img.width # w /\ img.height # h

\* Lines 97 and 107: whether a grid is resampled.
NeedsResize(img, w, h) == img.width # w \/ img.height # h

\* image::imageops::resize (not part of the repository): a grid of exactly
\* the requested size.  Its pixels are sampled from the nearest source
\* pixel, in place of the Lanczos3 filter's values.
Resize(img, w, h) ==
  Grid(w, h,
       [k \in 1..(w * h) |->
          get_pixel(img, (((k - 1) % w) * img.width) \div w,
                         (((k - 1) \div w) * img.height) \div h)])

(***************************************************************************)
(* blend_pixels on its own: every pair of pixels of Pixels, blended both   *)
(* ways round.                                                             *)
(***************************************************************************)
Colours == {<<0, 0, 0>>, <<255, 0, 0>>, <<0, 255, 0>>, <<0, 0, 255>>,
            <<255, 255, 255>>, <<113, 113, 113>>, <<10, 20, 30>>,
            <<1, 127, 254>>}

Alphas == {0, 1, 2, 3, 64, 127, 128, 191, 254, 255}

Pixels == {<<c[1], c[2], c[3], a>> : c \in Colours, a \in Alphas}

InitBlend ==
  /\ fn = "blend_pixels" /\ pc = "call"
  /\ base \in Pixels /\ overlay \in Pixels
  /\ blended = <<>> /\ blended_swapped = <<>>
  /\ NoImageCall

Blend ==
  /\ fn = "blend_pixels" /\ pc = "call"
  /\ blended' = blend_pixels(base, overlay)
  /\ pc' = "swap"
  /\ UNCHANGED <<fn, base, overlay, blended_swapped, base_image_data,
                 overlay_image_data, layers_data, width, height, result_img,
                 overlay_img, layer_index, base64_content, resized, ret>>

BlendSwapped ==
  /\ fn = "blend_pixels" /\ pc = "swap"
  /\ blended_swapped' = blend_pixels(overlay, base)
  /\ pc' = "done"
  /\ UNCHANGED <<fn, base, overlay, blended, base_image_data,
                 overlay_image_data, layers_data, width, height, result_img,
                 overlay_img, layer_index, base64_content, resized, ret>>

NextBlend == Blend \/ BlendSwapped

SpecBlend == InitBlend /\ [][NextBlend]_vars

(***************************************************************************)
(* Claims about blend_pixels, under SpecBlend.                             *)
(***************************************************************************)

\* C1: a fully opaque overlay pixel (alpha 255) is returned exactly, all
\* four channels, whatever the base pixel's colour and alpha.
C1_OpaqueOverlayIsResult ==
  (pc # "call" /\ overlay[4] = 255) => blended = overlay

C1_Witness ==
  /\ pc = "done" /\ overlay[4] = 255 /\ blended = overlay
  /\ base[4] \notin {0, 255} /\ base[1] # overlay[1]

\* C2 (as claimed): a fully transparent overlay pixel (alpha 0) returns the
\* base pixel exactly, for every base pixel.
C2_TransparentOverlayKeepsBase ==
  (pc # "call" /\ overlay[4] = 0) => blended = base

\* Whether some colour channel's difference, weighted by a_A*a_B/a_r, is at
\* least 2: |A.c - B.c| * a * b >= 2 * (255 * (a + b) - a * b).
Abs(n) == IF n < 0 THEN 0 - n ELSE n

WeightedDifference(A, B) ==
  \E c \in 1..3 :
    Abs(A[c] - B[c]) * A[4] * B[4] >= 2 * (255 * (A[4] + B[4]) - A[4] * B[4])

BothTranslucent(A, B) == A[4] \notin {0, 255} /\ B[4] \notin {0, 255}

\* C8 (as claimed): whenever both alphas are strictly between 0 and 255 the
\* two orders of blending give different pixels.
C8_NeverCommutes ==
  (pc = "done" /\ BothTranslucent(base, overlay)) => blended # blended_swapped

\* C8 (amended): the two orders give different pixels whenever both alphas
\* are strictly between 0 and 255 and some colour channel differs by at
\* least 2 after weighting by a_A*a_B/a_r.
C8_CommutesOnlyWhenClose ==
  (pc = "done" /\ BothTranslucent(base, overlay) /\ WeightedDifference(base, overlay))
    => blended # blended_swapped

C8_Witness ==
  /\ pc = "done" /\ BothTranslucent(base, overlay)
  /\ WeightedDifference(base, overlay) /\ blended # blended_swapped
  /\ base[4] # overlay[4]

\* n / d rounded to the nearest integer (halves up), n >= 0, d > 0.
RoundDiv(n, d) == (2 * n + d) \div (2 * d)

\* The pixel section 4.1's formula gives, in exact arithmetic, with
\* a_o = O.a/255 and a_b = B.a/255 cleared of their denominators:
\*   a_r * 255^2 = 255*O.a + B.a*(255 - O.a)
\*   colour      = (255*O.c*O.a + B.c*B.a*(255 - O.a)) / (a_r * 255^2)
RoundedBlend(B, O) ==
  LET ar == 255 * O[4] + B[4] * (255 - O[4])
      ch(c) == RoundDiv(255 * O[c] * O[4] + B[c] * B[4] * (255 - O[4]), ar)
  IN <<ch(1), ch(2), ch(3), RoundDiv(ar, 255)>>

\* C9 (as claimed): when the result alpha is non-zero every channel is the
\* formula's value rounded to the nearest integer; so pixel 0 of the 2x1
\* scenario, red (255,0,0,255) under blue (0,0,255,128), is that rounded
\* value.
C9_ChannelsAreRounded ==
  (pc # "call" /\ (base[4] # 0 \/ overlay[4] # 0))
    => blended = RoundedBlend(base, overlay)

(***************************************************************************)
(* composite_images and composite_multiple_layers.                         *)
(***************************************************************************)
MaxLayers == 3

\* Section 8's scenario, a grid taller and narrower than its base, and a
\* 2x2 grid of every kind of alpha.
ScenarioBase == Grid(2, 1, <<<<255, 0, 0, 255>>, <<0, 255, 0, 255>>>>)

ScenarioOverlay == Grid(2, 1, <<<<0, 0, 255, 128>>, <<0, 0, 0, 0>>>>)

Tall == Grid(1, 2, <<<<0, 255, 0, 128>>, <<255, 255, 255, 64>>>>)

Square == Grid(2, 2, <<<<255, 0, 0, 128>>, <<255, 255, 255, 255>>,
                       <<0, 0, 0, 1>>, <<10, 20, 30, 0>>>>)

NotAnImage == <<1, 2, 3>>

BaseFiles == {EncodeImage(ScenarioBase), EncodeImage(Tall), NotAnImage}

OverlayFiles ==
  {EncodeImage(ScenarioOverlay), EncodeImage(Tall), EncodeImage(Square),
   NotAnImage}

String(chars) == [type |-> "string", chars |-> chars]

DataUrlOf(img) == String(DataUrlPrefix \o Base64Encode(EncodeImage(img)))

\* A data URL whose text goes on after a second ",".
TwoCommas ==
  String(DataUrlPrefix \o Base64Encode(EncodeImage(ScenarioOverlay))
           \o <<",", "A", "A", "A", "A">>)

LayerValues ==
  { [type |-> "number", chars |-> <<>>],
    DataUrlOf(ScenarioOverlay), DataUrlOf(Tall), DataUrlOf(Square),
    String(Base64Encode(EncodeImage(Tall))),
    String(DataImage \o <<"/", "p", "n", "g">>),
    String(DataUrlPrefix \o <<"A", "?", "A", "A">>),
    String(DataUrlPrefix \o Base64Encode(NotAnImage)),
    String(<<"d", "a", "t", "a", ",">> \o Base64Encode(EncodeImage(Tall))),
    TwoCommas }

LayerSeqs == UNION {[1..n -> LayerValues] : n \in 0..MaxLayers}

InitComposite ==
  /\ pc = "call"
  /\ base_image_data \in BaseFiles
  /\ \/ /\ fn = "composite_images"
        /\ overlay_image_data \in OverlayFiles
        /\ layers_data = <<>>
     \/ /\ fn = "composite_multiple_layers"
        /\ overlay_image_data = <<>>
        /\ layers_data \in LayerSeqs
  /\ width = 0 /\ height = 0
  /\ result_img = NoGrid /\ overlay_img = NoGrid
  /\ layer_index = 0 /\ base64_content = <<>> /\ resized = {}
  /\ ret = NoRet
  /\ NoPixelCall

\* return Err(..)
Return(e) ==
  /\ ret' = e
  /\ pc' = "done"

\* composite_images, lines 8-16: both images are decoded.
ImagesDecode ==
  /\ fn = "composite_images" /\ pc = "call"
  /\ LET base_img    == DecodeImage(base_image_data)
         overlay_dec == DecodeImage(overlay_image_data)
     IN IF ~base_img.ok
        THEN /\ Return(Err("Failed to decode base image: ", base_img.err))
             /\ UNCHANGED <<result_img, overlay_img>>
        ELSE IF ~overlay_dec.ok
        THEN /\ Return(Err("Failed to decode overlay image: ", overlay_dec.err))
             /\ UNCHANGED <<result_img, overlay_img>>
        ELSE /\ result_img' = base_img.img
             /\ overlay_img' = overlay_dec.img
             /\ pc' = "blend"
             /\ ret' = ret
  /\ UNCHANGED <<fn, base, overlay, blended, blended_swapped, base_image_data,
                 overlay_image_data, layers_data, width, height, layer_index,
                 base64_content, resized>>

\* The blend pass of composite_images (lines 19-25) and of generate_preview
\* (lines 114-120).
BlendPass ==
  /\ fn \in {"composite_images", "generate_preview"} /\ pc = "blend"
  /\ result_img' = CompositeOnto(result_img, overlay_img)
  /\ pc' = "encode"
  /\ UNCHANGED <<fn, base, overlay, blended, blended_swapped, base_image_data,
                 overlay_image_data, layers_data, width, height, overlay_img,
                 layer_index, base64_content, resized, ret>>

\* composite_multiple_layers, lines 41-43.
LayersDecodeBase ==
  /\ fn = "composite_multiple_layers" /\ pc = "call"
  /\ LET decoded == DecodeImage(base_image_data)
     IN IF ~decoded.ok
        THEN /\ Return(Err("Failed to decode base image: ", decoded.err))
             /\ UNCHANGED result_img
        ELSE /\ result_img' = decoded.img
             /\ pc' = "layers"
             /\ ret' = ret
  /\ UNCHANGED <<fn, base, overlay, blended, blended_swapped, base_image_data,
                 overlay_image_data, layers_data, width, height, overlay_img,
                 layer_index, base64_content, resized>>

\* One iteration of the loop over the layers, lines 46-76.
LayerStep ==
  /\ fn = "composite_multiple_layers" /\ pc = "layers"
  /\ layer_index < Len(layers_data)
  /\ LET step == ProcessLayer(result_img, NextLayer(layers_data, layer_index))
     IN /\ layer_index' = layer_index + 1
        /\ base64_content' = step.content
        /\ result_img' = step.img
        /\ overlay_img' = step.overlay
        /\ IF step.ok THEN UNCHANGED <<pc, ret>> ELSE Return(step.ret)
  /\ UNCHANGED <<fn, base, overlay, blended, blended_swapped, base_image_data,
                 overlay_image_data, layers_data, width, height, resized>>

\* The loop ends, line 76.
LayersEnd ==
  /\ fn = "composite_multiple_layers" /\ pc = "layers"
  /\ layer_index = Len(layers_data)
  /\ pc' = "encode"
  /\ UNCHANGED <<fn, base, overlay, blended, blended_swapped, base_image_data,
                 overlay_image_data, layers_data, width, height, result_img,
                 overlay_img, layer_index, base64_content, resized, ret>>

\* Lines 28-35, 78-86, 122-130: the grid is encoded and returned.
Encode ==
  /\ pc = "encode"
  /\ ret' = Ok(result_img)
  /\ pc' = "done"
  /\ UNCHANGED <<fn, base, overlay, blended, blended_swapped, base_image_data,
                 overlay_image_data, layers_data, width, height, result_img,
                 overlay_img, layer_index, base64_content, resized>>

NextComposite ==
  \/ ImagesDecode
  \/ BlendPass
  \/ LayersDecodeBase
  \/ LayerStep
  \/ LayersEnd
  \/ Encode

SpecComposite == InitComposite /\ [][NextComposite]_vars

(***************************************************************************)
(* generate_preview.                                                       *)
(***************************************************************************)
MaxDim == 2

PreviewFiles ==
  {EncodeImage(ScenarioBase), EncodeImage(Tall), EncodeImage(Square),
   EncodeImage(Grid(1, 1, <<<<0, 0, 255, 128>>>>)), NotAnImage}

InitPreview ==
  /\ fn = "generate_preview" /\ pc = "call"
  /\ base_image_data \in PreviewFiles
  /\ overlay_image_data \in PreviewFiles
  /\ width \in 1..MaxDim /\ height \in 1..MaxDim
  /\ layers_data = <<>>
  /\ result_img = NoGrid /\ overlay_img = NoGrid
  /\ layer_index = 0 /\ base64_content = <<>> /\ resized = {}
  /\ ret = NoRet
  /\ NoPixelCall

\* Lines 92-99: the base is decoded and, if need be, resampled.
PreviewBase ==
  /\ fn = "generate_preview" /\ pc = "call"
  /\ LET decoded == DecodeImage(base_image_data)
     IN IF ~decoded.ok
        THEN /\ Return(Err("Failed to decode base image: ", decoded.err))
             /\ UNCHANGED <<result_img, resized>>
        ELSE /\ IF NeedsResize(decoded.img, width, height)
                THEN /\ result_img' = Resize(decoded.img, width, height)
                     /\ resized' = resized \cup {"base"}
                ELSE /\ result_img' = decoded.img
                     /\ resized' = resized
             /\ pc' = "overlay"
             /\ ret' = ret
  /\ UNCHANGED <<fn, base, overlay, blended, blended_swapped, base_image_data,
                 overlay_image_data, layers_data, width, height, overlay_img,
                 layer_index, base64_content>>

\* Lines 102-111: the overlay is decoded and, if need be, resampled.
PreviewOverlay ==
  /\ fn = "generate_preview" /\ pc = "overlay"
  /\ LET decoded == DecodeImage(overlay_image_data)
     IN IF ~decoded.ok
        THEN /\ Return(Err("Failed to decode overlay image: ", decoded.err))
             /\ UNCHANGED <<overlay_img, resized>>
        ELSE /\ IF NeedsResize(decoded.img, width, height)
                THEN /\ overlay_img' = Resize(decoded.img, width, height)
                     /\ resized' = resized \cup {"overlay"}
                ELSE /\ overlay_img' = decoded.img
                     /\ resized' = resized
             /\ pc' = "blend"
             /\ ret' = ret
  /\ UNCHANGED <<fn, base, overlay, blended, blended_swapped, base_image_data,
                 overlay_image_data, layers_data, width, height, result_img,
                 layer_index, base64_content>>

NextPreview ==
  \/ PreviewBase
  \/ PreviewOverlay
  \/ BlendPass
  \/ Encode

SpecPreview == InitPreview /\ [][NextPreview]_vars

(***************************************************************************)
(* Claims about composite_images and composite_multiple_layers, under      *)
(* SpecComposite.                                                          *)
(***************************************************************************)
Layers == "composite_multiple_layers"

\* The grid a layer value holds, for a layer that decodes.
LayerGrid(layer_value) ==
  DecodeImage(Base64Decode(LayerPayload(layer_value.chars).value).bytes).img

\* The left fold of the single-layer compositor over layers 1..k.
RECURSIVE FoldLayers(_, _, _)
FoldLayers(img, layers, k) ==
  IF k = 0 THEN img
  ELSE CompositeOnto(FoldLayers(img, layers, k - 1), LayerGrid(layers[k]))

Reverse(seq) == [k \in 1..Len(seq) |-> seq[Len(seq) + 1 - k]]

\* C3: after k layers the working grid is the left fold of the compositor
\* over layers 1..k from the decoded base, for every k from 0 to n, and the
\* grid encoded and returned is the fold over all n layers (the decoded
\* base itself when there are none).
C3_LeftFoldInOrder ==
  (fn = Layers /\ pc # "call" /\ ret.kind # "Err")
    => /\ result_img = FoldLayers(DecodeImage(base_image_data).img,
                                   layers_data, layer_index)
       /\ pc \in {"encode", "done"} => layer_index = Len(layers_data)
       /\ pc = "done" => ret = Ok(FoldLayers(DecodeImage(base_image_data).img,
                                             layers_data, Len(layers_data)))

\* Two layers were blended whose order matters.
C3_Witness ==
  /\ fn = Layers /\ pc = "done" /\ ret.kind = "Ok"
  /\ Len(layers_data) >= 2 /\ layer_index = Len(layers_data)
  /\ result_img # FoldLayers(DecodeImage(base_image_data).img,
                              Reverse(layers_data), Len(layers_data))

\* A step that blends overlay_img' onto the working grid.
BlendsOverlay ==
  \/ pc = "blend" /\ pc' = "encode"
  \/ fn = Layers /\ layer_index' = layer_index + 1 /\ ret'.kind # "Err"

\* `after` is `before` with exactly the coordinates that exist in both grids
\* blended, each with the overlay pixel of its own coordinate.
Frame(before, after, ov) ==
  /\ after.width = before.width /\ after.height = before.height
  /\ Len(after.pixels) = Len(before.pixels)
  /\ \A x \in 0..(before.width - 1), y \in 0..(before.height - 1) :
       get_pixel(after, x, y) =
         IF x < ov.width /\ y < ov.height
         THEN blend_pixels(get_pixel(before, x, y), get_pixel(ov, x, y))
         ELSE get_pixel(before, x, y)

\* C4: compositing one overlay changes only coordinates that exist in both
\* grids: base pixels the overlay does not cover keep their value, overlay
\* pixels outside the base change nothing, and the base keeps its width
\* and height.
C4_OnlySharedCoordinatesChange ==
  [][BlendsOverlay => Frame(result_img, result_img', overlay_img')]_vars

\* An overlay was blended that is taller and narrower than the working grid.
C4_Witness ==
  /\ pc \in {"layers", "encode", "done"} /\ ret.kind # "Err"
  /\ overlay_img # NoGrid
  /\ overlay_img.height > result_img.height
  /\ overlay_img.width < result_img.width

\* The ways a layer fails: not a string, a data URL without a comma,
\* invalid base64, unrecognised image bytes.
LayerFails(layer_value) ==
  \/ layer_value.type # "string"
  \/ ~LayerPayload(layer_value.chars).some
  \/ ~Base64Decode(LayerPayload(layer_value.chars).value).ok
  \/ ~DecodeImage(Base64Decode(LayerPayload(layer_value.chars).value).bytes).ok

\* C5: once a failing layer has been taken from the sequence the call is
\* over with an error value, no layer after it is taken, and no encoded
\* image is ever returned for a sequence holding a failing layer.
C5_FailedLayerAborts ==
  fn = Layers
    => /\ \A j \in 1..layer_index :
            LayerFails(layers_data[j])
              => pc = "done" /\ ret.kind = "Err" /\ layer_index = j
       /\ ret.kind = "Ok"
            => \A j \in 1..Len(layers_data) : ~LayerFails(layers_data[j])

\* A layer failed after an earlier one had been blended and before a later
\* one.
C5_Witness ==
  /\ fn = Layers /\ pc = "done" /\ ret.kind = "Err"
  /\ layer_index = 2 /\ Len(layers_data) > 2
  /\ result_img # DecodeImage(base_image_data).img

\* The image bytes of the layer could not be decoded.
ImageDecodeFails(layer_value) ==
  /\ layer_value.type = "string"
  /\ LayerPayload(layer_value.chars).some
  /\ Base64Decode(LayerPayload(layer_value.chars).value).ok
  /\ ~DecodeImage(Base64Decode(LayerPayload(layer_value.chars).value).bytes).ok

\* C6 (as claimed): the error for undecodable image bytes of layer i tells
\* the layer's position: the same layers behind one more good layer, which
\* fail at position i + 1, return a different error value.
C6_ErrorTellsThePosition ==
  (/\ fn = Layers /\ pc = "done" /\ ret.kind = "Err" /\ layer_index >= 1
   /\ ImageDecodeFails(layers_data[layer_index]))
    => ret # composite_multiple_layers(
                base_image_data, <<DataUrlOf(ScenarioOverlay)>> \o layers_data)

\* Everything after the first "," of s.
AfterFirstComma(s) == SubSeq(s, FindComma(s, 1) + 1, Len(s))

\* C10 (as claimed): a layer string starting with "data:image" has all the
\* text after its first comma as payload and is rejected as a malformed
\* data URL exactly when it has no comma; any other string is the payload
\* whole.
C10_PayloadIsAllAfterFirstComma ==
  (/\ fn = Layers /\ layer_index >= 1
   /\ layers_data[layer_index].type = "string")
    => LET s == layers_data[layer_index].chars
           malformed == ret = Err("Invalid data URL format", "")
       IN IF ~starts_with(s, DataImage)
          THEN base64_content = s /\ ~malformed
          ELSE IF FindComma(s, 1) = 0
          THEN malformed
          ELSE base64_content = AfterFirstComma(s) /\ ~malformed

(***************************************************************************)
(* Claims about generate_preview, under SpecPreview.                       *)
(***************************************************************************)
Size(img) == <<img.width, img.height>>

\* C7: each of the two images is resampled exactly when its own decoded
\* size differs from the target; when the blend pass starts, and after it,
\* both grids have exactly the target size, so no overlay pixel is clipped
\* and the grid returned has the target size.
C7_BothGridsAtTargetSize ==
  (fn = "generate_preview" /\ pc \in {"blend", "encode", "done"}
   /\ ret.kind # "Err")
    => /\ "base" \in resized
            <=> Size(DecodeImage(base_image_data).img) # <<width, height>>
       /\ "overlay" \in resized
            <=> Size(DecodeImage(overlay_image_data).img) # <<width, height>>
       /\ Size(result_img) = <<width, height>>
       /\ Len(result_img.pixels) = width * height
       /\ Size(overlay_img) = <<width, height>>
       /\ Len(overlay_img.pixels) = width * height
       /\ pc = "done" => ret = Ok(result_img)

\* A base already at the target size was left alone and a differently-sized
\* overlay resampled.
C7_Witness ==
  /\ fn = "generate_preview" /\ pc = "done" /\ ret.kind = "Ok"
  /\ resized = {"overlay"}
  /\ Size(DecodeImage(base_image_data).img) = <<width, height>>
  /\ Size(DecodeImage(overlay_image_data).img) # <<width, height>>

====
